---- MODULE Spec2Model ----
(***************************************************************************)
(* A model of pMPO.py (src/pMPO/pMPO.py): the label evaluator, the         *)
(* descriptor statistics engine, the redundancy selector, the weight       *)
(* normaliser, the scoring model and the model builder.                    *)
(*                                                                         *)
(* Numbers.  A Python/numpy float is modelled as an exact rational or one  *)
(* of the IEEE specials nan, +inf, -inf; numpy's arithmetic on arrays      *)
(* never raises on a division by zero, it yields inf or nan.  Rounding is  *)
(* not modelled.  The results of library calls that cannot be computed in  *)
(* rational arithmetic (np.mean, np.std, scipy's ttest_ind, DataFrame.corr)*)
(* are inputs, drawn from small sets and constrained to what the library   *)
(* can return for the sample counts at hand.                               *)
(***************************************************************************)
EXTENDS Integers, Sequences, FiniteSets, TLC

VARIABLES
    pc,              \* position of the program
    good_value,      \* label policy handed to build_evaluator
    raw_column,      \* df[good_column]: the raw label column
    label_column,    \* df[self.good_column]: the boolean label column
    df,              \* the numeric descriptor columns: which cells are present
    lib,             \* results of np.mean/np.std/ttest_ind/corr on df
    r2_cutoff,       \* correlation threshold
    decriptor_stats, \* the statistics table (sic: the source's spelling)
    descriptor_corr, \* the r^2 matrix returned by pick_uncorrelated_columns
    pMPO,            \* the scoring model: None or its functions
    returned,        \* the last get_pMPO: what it returned, after how many mutations
    first_returned,  \* the first get_pMPO: the same
    mutations,       \* number of caller mutations of the statistics table
    kwargs,          \* the record of the last evaluate call
    result           \* the outcome of the last evaluate call

vars == <<pc, good_value, raw_column, label_column, df, lib, r2_cutoff,
          decriptor_stats, descriptor_corr, pMPO, returned, first_returned,
          mutations, kwargs, result>>

(***************************************************************************)
(* Bounds of the model.                                                    *)
(***************************************************************************)
MaxColumn == 2

MaxRecord == 3

MaxMutations == 2

\* Rows of the frames of Spec, SpecCache and SpecSelect.
NumRows == 4

CacheRows == 6

SelectRows == 8

(***************************************************************************)
(* Floats: [k, n, d] with k in fin (the rational n/d, d > 0, lowest        *)
(* terms), nan, inf (n is the sign).                                       *)
(***************************************************************************)
Abs(x) == IF x < 0 THEN -x ELSE x

Sign(x) == IF x > 0 THEN 1 ELSE IF x < 0 THEN -1 ELSE 0

RECURSIVE GCD(_, _)
GCD(a, b) == IF b = 0 THEN a ELSE GCD(b, a % b)

NaN == [k |-> "nan", n |-> 0, d |-> 1]

Inf(s) == [k |-> "inf", n |-> s, d |-> 1]

Fin(n, d) ==
    LET g == GCD(Abs(n), Abs(d))
    IN  [k |-> "fin", n |-> Sign(n) * Sign(d) * (Abs(n) \div g), d |-> Abs(d) \div g]

Zero == Fin(0, 1)

One == Fin(1, 1)

IsNaN(a) == a.k = "nan"

IsFin(a) == a.k = "fin"

FNeg(a) == [a EXCEPT !.n = -a.n]

FAbs(a) == [a EXCEPT !.n = Abs(a.n)]

FAdd(a, b) ==
    IF IsNaN(a) \/ IsNaN(b) THEN NaN
    ELSE IF a.k = "inf" /\ b.k = "inf" THEN (IF a.n = b.n THEN a ELSE NaN)
    ELSE IF a.k = "inf" THEN a
    ELSE IF b.k = "inf" THEN b
    ELSE Fin(a.n * b.d + b.n * a.d, a.d * b.d)

FSub(a, b) == FAdd(a, FNeg(b))

FMul(a, b) ==
    IF IsNaN(a) \/ IsNaN(b) THEN NaN
    ELSE IF a.k = "inf" \/ b.k = "inf"
         THEN (IF a.n = 0 \/ b.n = 0 THEN NaN ELSE Inf(Sign(a.n) * Sign(b.n)))
    ELSE Fin(a.n * b.n, a.d * b.d)

\* Division as numpy does it: x/0 is inf, 0/0 and inf/inf are nan, no error.
\* (A zero is +0 here: every divisor of the program is a sum or a square of
\* non-negative numbers.)
FDiv(a, b) ==
    IF IsNaN(a) \/ IsNaN(b) THEN NaN
    ELSE IF a.k = "inf" THEN (IF b.k = "inf" THEN NaN
                              ELSE Inf(a.n * (IF b.n < 0 THEN -1 ELSE 1)))
    ELSE IF b.k = "inf" THEN Zero
    ELSE IF b.n = 0 THEN (IF a.n = 0 THEN NaN ELSE Inf(Sign(a.n)))
    ELSE Fin(a.n * b.d, a.d * b.n)

\* a < b: False as soon as one side is nan.
FLt(a, b) ==
    IF IsNaN(a) \/ IsNaN(b) THEN FALSE
    ELSE IF a.k = "inf" THEN a.n < 0 /\ ~(b.k = "inf" /\ b.n < 0)
    ELSE IF b.k = "inf" THEN b.n > 0
    ELSE a.n * b.d < b.n * a.d

FGt(a, b) == FLt(b, a)

FLe(a, b) == ~IsNaN(a) /\ ~IsNaN(b) /\ ~FLt(b, a)

FSquare(a) == FMul(a, a)

(***************************************************************************)
(* Label evaluator.  A raw cell or a good_value is [kind, s, n]: a str     *)
(* (s), an int, bool or float (n), the float nan, or a callable (s names   *)
(* the predicate).                                                         *)
(***************************************************************************)
Str(s) == [kind |-> "str", s |-> s, n |-> 0]

Int_(n) == [kind |-> "int", s |-> "", n |-> n]

Bool_(b) == [kind |-> "bool", s |-> "", n |-> IF b THEN 1 ELSE 0]

FloatNaN == [kind |-> "nan", s |-> "", n |-> 0]

Callable(name) == [kind |-> "callable", s |-> name, n |-> 0]

\* Python's ==: numbers (int, bool, float) compare by value, strings by
\* content, nan equals nothing, a function only itself.
PyEq(x, y) ==
    CASE x.kind = "nan" \/ y.kind = "nan" -> FALSE
      [] x.kind \in {"int", "bool"} /\ y.kind \in {"int", "bool"} -> x.n = y.n
      [] x.kind = "str" /\ y.kind = "str" -> x.s = y.s
      [] x.kind = "callable" /\ y.kind = "callable" -> x.s = y.s
      [] OTHER -> FALSE

DEFAULT_TRUTHS ==
    {Str(s) : s \in {"true", "True", "TRUE", "t", "T",
                      "good", "Good", "GOOD", "g", "G",
                      "active", "Active", "ACTIVE", "a", "A",
                      "yes", "Yes", "YES", "y", "Y", "1"}}
    \cup {Int_(1), Bool_(TRUE)}

\* x in DEFAULT_TRUTHS: set membership is by hash and ==.
InTruths(x) == \E t \in DEFAULT_TRUTHS : PyEq(x, t)

\* build_evaluator(good_value)(x)
build_evaluator(gv, x) ==
    IF PyEq(gv, Str("default")) THEN InTruths(x) ELSE PyEq(x, gv)

\* np.vectorize(good_value_evaluator)(self.df[good_column])
Vectorize(gv, col) == [i \in 1..Len(col) |-> build_evaluator(gv, col[i])]

(***************************************************************************)
(* Descriptor statistics engine.  df is [cols, cells]: the numeric columns *)
(* in the frame's order and, per column, which rows hold a value.  label   *)
(* is the boolean label column.  summary gives, per column that passes the *)
(* sample test, what np.mean, np.std and ttest_ind return for it.          *)
(***************************************************************************)
\* min_samples (a parameter, default 10), at the model's scale.
MinSamples == 2

\* p_cutoff=0.01, r2_cutoff=0.53: the defaults.
P_CUTOFF == Fin(1, 100)

R2_CUTOFF == Fin(53, 100)

Range(s) == {s[i] : i \in DOMAIN s}

\* subdf = df[[good_column, col]].dropna(thresh=2);
\* good = subdf[subdf[good_column] == True][[col]].values
GoodRows(d, label, col) == {i \in DOMAIN label : d.cells[col][i] /\ label[i]}

BadRows(d, label, col) == {i \in DOMAIN label : d.cells[col][i] /\ ~label[i]}

\* if good.size >= min_samples and bad.size >= min_samples
EnoughSamples(d, label, col, min_samples) ==
    /\ Cardinality(GoodRows(d, label, col)) >= min_samples
    /\ Cardinality(BadRows(d, label, col)) >= min_samples

\* The columns whose row is appended to data, in the frame's order.
AnalysedColumns(d, label, min_samples) ==
    SelectSeq(d.cols, LAMBDA col : EnoughSamples(d, label, col, min_samples))

\* column_stats['cutoff'] = np.where(good_mean < bad_mean, ..., ...)
Cutoff(gm, gs, bm, bs) ==
    IF FLt(gm, bm)
    THEN FAdd(FMul(FDiv(FSub(bm, gm), FAdd(gs, bs)), gs), gm)
    ELSE FAdd(FMul(FDiv(FSub(gm, bm), FAdd(gs, bs)), bs), bm)

\* column_stats['z'] = np.absolute(cutoff - good_mean) / good_std
ZScore(cutoff, gm, gs) == FDiv(FAbs(FSub(cutoff, gm)), gs)

\* One row of the table.  The columns inflection, b and c (np.exp, np.log10,
\* np.power of the others) are left out: nothing in the program reads them.
StatsRow(d, label, col, s, p_cutoff) ==
    LET cutoff == Cutoff(s.good_mean, s.good_std, s.bad_mean, s.bad_std)
    IN  [name          |-> col,
         p_value       |-> s.p_value,
         good_mean     |-> s.good_mean,
         good_std      |-> s.good_std,
         good_nsamples |-> Cardinality(GoodRows(d, label, col)),
         bad_mean      |-> s.bad_mean,
         bad_std       |-> s.bad_std,
         bad_nsamples  |-> Cardinality(BadRows(d, label, col)),
         significant   |-> FLt(s.p_value, p_cutoff),
         cutoff        |-> cutoff,
         z             |-> ZScore(cutoff, s.good_mean, s.good_std)]

\* The table before sort_values: one row per analysed column.
StatsData(d, label, min_samples, p_cutoff, summary) ==
    LET cols == AnalysedColumns(d, label, min_samples)
    IN  [i \in 1..Len(cols) |-> StatsRow(d, label, cols[i], summary[cols[i]], p_cutoff)]

\* sort_values(by='p_value'): ascending, nan last.  The default sort is not
\* stable, so rows of equal p_value may come out in any order.
PBefore(x, y) == ~IsNaN(x.p_value) /\ (IsNaN(y.p_value) \/ FLt(x.p_value, y.p_value))

Perms(n) == {f \in [1..n -> 1..n] : \A i, j \in 1..n : i # j => f[i] # f[j]}

SortValues(data) ==
    {[i \in 1..Len(data) |-> data[f[i]]] : f \in
        {g \in Perms(Len(data)) :
            \A i, j \in 1..Len(data) : i < j => ~PBefore(data[g[j]], data[g[i]])}}

\* calculate_descriptor_statistics: pd.DataFrame([]) has no column, so
\* column_stats['p_value'] raises KeyError when data is empty.
StatsRaises(d, label, min_samples) == AnalysedColumns(d, label, min_samples) = <<>>

calculate_descriptor_statistics(d, label, min_samples, p_cutoff, summary) ==
    SortValues(StatsData(d, label, min_samples, p_cutoff, summary))

(***************************************************************************)
(* What the library can return.  A summary is [good_mean, good_std,        *)
(* bad_mean, bad_std, p_value] of a column with at least two good and two  *)
(* bad values: equal means give t = 0 and p = 1 (nan when both variances   *)
(* are 0); different means with both variances 0 give |t| = inf and p = 0, *)
(* or nan in builds that refuse the degenerate test; else p is in (0, 1).  *)
(* The p-value is drawn, not computed from the numbers beside it (the t    *)
(* distribution is outside rational arithmetic): the means and deviations  *)
(* stand for samples with the same order of means and the same zero        *)
(* deviations, and such samples exist for every p in (0, 1).               *)
(***************************************************************************)
MeanVals == {Fin(0, 1), Fin(2, 1)}

StdVals == {Fin(0, 1), Fin(1, 1)}

PVals == {Fin(1, 1000), Fin(1, 500), Fin(1, 20)}

PValues(gm, gs, bm, bs) ==
    IF gm = bm
    THEN (IF gs = Zero /\ bs = Zero THEN {NaN} ELSE {One})
    ELSE (IF gs = Zero /\ bs = Zero THEN {Zero, NaN} ELSE PVals)

Summaries ==
    {[good_mean |-> gm, good_std |-> gs, bad_mean |-> bm, bad_std |-> bs, p_value |-> p] :
        <<gm, gs, bm, bs, p>> \in
            {t \in MeanVals \X StdVals \X MeanVals \X StdVals \X (PVals \cup {Zero, One, NaN}) :
                t[5] \in PValues(t[1], t[2], t[3], t[4])}}

(***************************************************************************)
(* Redundancy selector.                                                    *)
(***************************************************************************)
\* What DataFrame.corr can return for the columns `names`: a symmetric
\* matrix (pandas fills [x, y] and [y, x] from one computation) with 1 on
\* the diagonal.  An entry is nan when the two columns share fewer than two
\* rows or one of them is constant on the shared rows; a significant column
\* is not constant on its own rows, so two columns with the same rows have
\* a correlation.
CorrVals == {Fin(-9, 10), Fin(3, 10)}

Overlap(d, a, b) == {i \in DOMAIN d.cells[a] : d.cells[a][i] /\ d.cells[b][i]}

PairCorrs(d, a, b) ==
    IF Cardinality(Overlap(d, a, b)) < 2 THEN {NaN}
    ELSE IF d.cells[a] = d.cells[b] THEN CorrVals
    ELSE CorrVals \cup {NaN}

CorrResults(d, names) ==
    LET pairs == {{a, b} : a, b \in names} \ {{a} : a \in names}
        choices == {c \in [pairs -> CorrVals \cup {NaN}] :
                       \A a, b \in names : a # b => c[{a, b}] \in PairCorrs(d, a, b)}
    IN  {[a \in names |-> [b \in names |-> IF a = b THEN One ELSE c[{a, b}]]] :
            c \in choices}

\* significant_columns = column_stats[column_stats.significant == True]
SignificantColumns(column_stats) == SelectSeq(column_stats, LAMBDA r : r.significant)

SignificantNames(column_stats) == {r.name : r \in Range(SignificantColumns(column_stats))}

\* desc_correlation = np.square(df[significant names].corr())
DescCorrelation_unsquared(corr) == corr

DescCorrelation(corr) ==
    [a \in DOMAIN corr |-> [b \in DOMAIN corr |-> FSquare(corr[a][b])]]

\* any(desc_correlation[this_desc][that_desc] > r2_cutoff
\*     for that_desc in selected_descriptors)
Correlated_ge(desc_correlation, this_desc, selected_descriptors, cutoff) ==
    \E that_desc \in selected_descriptors :
        ~FLt(desc_correlation[this_desc][that_desc], cutoff)

Correlated(desc_correlation, this_desc, selected_descriptors, cutoff) ==
    \E that_desc \in selected_descriptors :
        FGt(desc_correlation[this_desc][that_desc], cutoff)

\* The loop over significant_columns.iterrows(), from row i on.
RECURSIVE SelectFrom(_, _, _, _, _)
SelectFrom(sig, i, selected_descriptors, desc_correlation, cutoff) ==
    IF i > Len(sig) THEN selected_descriptors
    ELSE SelectFrom(sig, i + 1,
                    IF Correlated(desc_correlation, sig[i].name, selected_descriptors, cutoff)
                    THEN selected_descriptors
                    ELSE selected_descriptors \cup {sig[i].name},
                    desc_correlation, cutoff)

\* pick_uncorrelated_columns(df, column_stats, r2_cutoff, resort=False): the
\* table with its 'selected' column, and the matrix it returns.
pick_uncorrelated_columns(column_stats, corr, cutoff) ==
    LET desc_correlation == DescCorrelation(corr)
        selected_descriptors ==
            SelectFrom(SignificantColumns(column_stats), 1, {}, desc_correlation, cutoff)
    IN  [column_stats |->
            [i \in 1..Len(column_stats) |->
                [selected |-> column_stats[i].significant
                              /\ column_stats[i].name \in selected_descriptors]
                @@ column_stats[i]],
         desc_correlation |-> desc_correlation]

(***************************************************************************)
(* Weight normaliser.                                                      *)
(***************************************************************************)
\* Series.sum(): nan entries are skipped, the empty sum is 0.0.
RECURSIVE SumSkipNa(_)
SumSkipNa(xs) ==
    IF xs = <<>> THEN Zero
    ELSE IF IsNaN(Head(xs)) THEN SumSkipNa(Tail(xs))
    ELSE FAdd(Head(xs), SumSkipNa(Tail(xs)))

Column(table, field) == [i \in 1..Len(table) |-> table[i][field]]

\* z_sum = df[df['selected'] == True].z.sum()
ZSum(table) == SumSkipNa(Column(SelectSeq(table, LAMBDA r : r.selected), "z"))

\* df['w'] = np.where(df['selected'] == True, df['z'] / z_sum, np.nan)
calculate_descriptor_weights(table) ==
    [i \in 1..Len(table) |->
        [w |-> IF table[i].selected THEN FDiv(table[i].z, ZSum(table)) ELSE NaN]
        @@ table[i]]

(***************************************************************************)
(* Sigmoid function and scoring model.  A value handed to the model is a   *)
(* float or something np.isnan refuses, such as None: k is none.           *)
(* The model's functions are a set of [name, mean, std, weight], one per   *)
(* name.                                                                   *)
(***************************************************************************)
NoneVal == [k |-> "none", n |-> 0, d |-> 1]

IsNumber(v) == v.k \in {"fin", "nan", "inf"}

\* np.exp.  On a finite argument the exponential is not rational; it is
\* replaced by 1/(1 + y + y^2/2) for the argument -y <= 0 (its reciprocal for
\* y > 0): exact at 0, positive, finite and decreasing like exp(-y).
np_exp(x) ==
    IF IsNaN(x) THEN NaN
    ELSE IF x.k = "inf" THEN (IF x.n < 0 THEN Zero ELSE Inf(1))
    ELSE LET y == FAbs(x)
             q == FAdd(One, FAdd(y, FDiv(FSquare(y), Fin(2, 1))))
         IN  IF x.n <= 0 THEN FDiv(One, q) ELSE q

\* SigmoidalFunction.__call__
SigmoidalFunction_call(fn, val) ==
    FMul(fn.weight,
         np_exp(FDiv(FMul(Fin(-1, 1), FSquare(FSub(val, fn.mean))),
                     FMul(Fin(2, 1), FSquare(fn.std)))))

Registered(functions, key) == \E e \in functions : e.name = key

FnOf(functions, key) == CHOOSE e \in functions : e.name = key

Ok(v) == [status |-> "ok", value |-> v]

TypeError == [status |-> "TypeError", value |-> Zero]

\* self.functions[key](val) if (key in self.functions and not np.isnan(val))
\* else 0.0: np.isnan is reached only for a registered key, and raises
\* TypeError on a value that is not a number.
Contribution_noNaNCheck(functions, key, val) ==
    IF ~Registered(functions, key) THEN Ok(Zero)
    ELSE IF ~IsNumber(val) THEN TypeError
    ELSE Ok(SigmoidalFunction_call(FnOf(functions, key), val))

Contribution(functions, key, val) ==
    IF ~Registered(functions, key) THEN Ok(Zero)
    ELSE IF ~IsNumber(val) THEN TypeError
    ELSE IF ~IsNaN(val) THEN Ok(SigmoidalFunction_call(FnOf(functions, key), val))
    ELSE Ok(Zero)

\* sum(... for key, val in kwargs.items()), from item i on with acc so far.
RECURSIVE SumItems(_, _, _, _)
SumItems(functions, items, i, acc) ==
    IF i > Len(items) THEN Ok(acc)
    ELSE LET c == Contribution(functions, items[i].key, items[i].val)
         IN  IF c.status # "ok" THEN c
             ELSE SumItems(functions, items, i + 1, FAdd(acc, c.value))

\* pMPOModel.__call__(**kwargs)
pMPOModel_call(functions, items) == SumItems(functions, items, 1, Zero)

\* pMPOModel.register(name, fn)
register(functions, name, fn) ==
    {e \in functions : e.name # name}
    \cup {[name |-> name, mean |-> fn.mean, std |-> fn.std, weight |-> fn.weight]}

(***************************************************************************)
(* Model builder.  A model object is [id, functions]; id 0 is None, and    *)
(* each pMPOModel(...) constructed by a builder gets the next id.          *)
(***************************************************************************)
NoModel == [id |-> 0, functions |-> {}]

\* The loop of get_pMPO over the selected rows: SigmoidalFunction(name, w,
\* good_mean, good_std renamed) registered under the row's name.
RECURSIVE RegisterRows(_, _, _)
RegisterRows(functions, rows, i) ==
    IF i > Len(rows) THEN functions
    ELSE RegisterRows(register(functions, rows[i].name,
                               [mean |-> rows[i].good_mean, std |-> rows[i].good_std,
                                weight |-> rows[i].w]),
                      rows, i + 1)

NewModel(self_pMPO, table) ==
    [id |-> self_pMPO.id + 1,
     functions |-> RegisterRows({}, SelectSeq(table, LAMBDA r : r.selected), 1)]

\* get_pMPO: what self.pMPO is, and what is returned, after the call.
get_pMPO_rebuild(self_pMPO, table) == NewModel(self_pMPO, table)

get_pMPO(self_pMPO, table) ==
    IF self_pMPO = NoModel THEN NewModel(self_pMPO, table) ELSE self_pMPO

(***************************************************************************)
(* State machines.  Values of the variables a specification does not use.  *)
(***************************************************************************)
NoDf == [cols |-> <<>>, cells |-> <<>>]

NoLib == [summary |-> <<>>, corr |-> <<>>]

NoResult == [status |-> "none", value |-> Zero]

NoCall == [model |-> NoModel, at |-> 0]

AllPresent(n) == [i \in 1..n |-> TRUE]

(***************************************************************************)
(* SpecLabel: the label evaluator applied to a raw label column, as        *)
(* pMPOBuilder.__init__ does before anything else.                         *)
(***************************************************************************)
Predicates == {"is_positive"}

\* What the caller's predicate answers on a raw value.
Holds(pred, x) == x.kind \in {"int", "bool"} /\ x.n > 0

GoodValues == {Str("default"), Str("no"), Int_(1)} \cup {Callable(q) : q \in Predicates}

RawValues == {Str("true"), Str("A"), Str("1"), Str("no"), Str("default"),
              Int_(1), Int_(0), Int_(5), Bool_(TRUE), Bool_(FALSE), FloatNaN}

InitLabel ==
    /\ pc = "new"
    /\ good_value \in GoodValues
    /\ raw_column \in UNION {[1..n -> RawValues] : n \in 1..MaxColumn}
    /\ label_column = <<>>
    /\ df = NoDf
    /\ lib = NoLib
    /\ r2_cutoff = R2_CUTOFF
    /\ decriptor_stats = <<>>
    /\ descriptor_corr = <<>>
    /\ pMPO = NoModel
    /\ returned = NoCall
    /\ first_returned = NoCall
    /\ mutations = 0
    /\ kwargs = <<>>
    /\ result = NoResult

\* self.df[self.good_column] = np.vectorize(good_value_evaluator)(self.df[good_column])
ApplyEvaluator ==
    /\ pc = "new"
    /\ label_column' = Vectorize(good_value, raw_column)
    /\ pc' = "labelled"
    /\ UNCHANGED <<good_value, raw_column, df, lib, r2_cutoff, decriptor_stats,
                   descriptor_corr, pMPO, returned, first_returned, mutations,
                   kwargs, result>>

NextLabel == ApplyEvaluator

SpecLabel == InitLabel /\ [][NextLabel]_vars

(***************************************************************************)
(* Spec: a builder.  pMPOBuilder.__init__ on a frame of NumRows rows with   *)
(* two numeric columns and a raw label column of strings (so the label     *)
(* column is not itself numeric), then get_pMPO.                           *)
(***************************************************************************)
BuilderColumns == <<"A", "B">>

InitBuilder(raws, cells) ==
    /\ pc = "new"
    /\ good_value = Str("default")
    /\ raw_column \in raws
    /\ label_column = <<>>
    /\ df \in {[cols |-> BuilderColumns, cells |-> c] : c \in cells}
    /\ lib = NoLib
    /\ r2_cutoff = R2_CUTOFF
    /\ decriptor_stats = <<>>
    /\ descriptor_corr = <<>>
    /\ pMPO = NoModel
    /\ returned = NoCall
    /\ first_returned = NoCall
    /\ mutations = 0
    /\ kwargs = <<>>
    /\ result = NoResult

Init ==
    InitBuilder([1..NumRows -> {Str("true"), Str("no")}],
                [Range(BuilderColumns) -> [1..NumRows -> BOOLEAN]])

\* pMPOBuilder.__init__: the label column, the statistics, the selection and
\* the weights; the KeyError of the statistics engine ends it.
BuilderInit(summaries) ==
    /\ pc = "new"
    /\ LET label == Vectorize(good_value, raw_column)
       IN  /\ label_column' = label
           /\ \/ /\ StatsRaises(df, label, MinSamples)
                 /\ pc' = "KeyError"
                 /\ UNCHANGED <<lib, decriptor_stats, descriptor_corr>>
              \/ /\ ~StatsRaises(df, label, MinSamples)
                 /\ \E summary \in [Range(AnalysedColumns(df, label, MinSamples)) -> summaries] :
                    \E stats \in calculate_descriptor_statistics(df, label, MinSamples,
                                                                 P_CUTOFF, summary) :
                    \E corr \in CorrResults(df, SignificantNames(stats)) :
                       LET picked == pick_uncorrelated_columns(stats, corr, r2_cutoff)
                       IN  /\ lib' = [summary |-> summary, corr |-> corr]
                           /\ decriptor_stats' =
                                  calculate_descriptor_weights(picked.column_stats)
                           /\ descriptor_corr' = picked.desc_correlation
                           /\ pc' = "built"
    /\ UNCHANGED <<good_value, raw_column, df, r2_cutoff, pMPO, returned,
                   first_returned, mutations, kwargs, result>>

\* builder.get_pMPO()
GetPMPO ==
    /\ pc = "built"
    /\ pMPO' = get_pMPO(pMPO, decriptor_stats)
    /\ returned' = [model |-> pMPO', at |-> mutations]
    /\ first_returned' = IF first_returned = NoCall THEN returned' ELSE first_returned
    /\ UNCHANGED <<pc, good_value, raw_column, label_column, df, lib, r2_cutoff,
                   decriptor_stats, descriptor_corr, mutations, kwargs, result>>

Next == BuilderInit(Summaries) \/ GetPMPO

Spec == Init /\ [][Next]_vars

(***************************************************************************)
(* SpecCache: a builder whose caller mutates the statistics table (the     *)
(* object get_pMPO_statistics hands out) between calls of get_pMPO.        *)
(***************************************************************************)
CacheSummaries == {u \in Summaries : u.good_mean = Zero /\ u.bad_mean = Fin(2, 1)}

InitCache ==
    InitBuilder({[i \in 1..CacheRows |-> IF 2 * i <= CacheRows THEN Str("true") ELSE Str("no")],
                 [i \in 1..CacheRows |-> IF i < CacheRows THEN Str("true") ELSE Str("no")]},
                {c \in [Range(BuilderColumns) -> [1..CacheRows -> BOOLEAN]] :
                    /\ c["A"] = AllPresent(CacheRows)
                    /\ \A i \in 2..CacheRows : c["B"][i]})

\* stats.loc[i, 'selected'] = not stats.loc[i, 'selected']
SetSelected ==
    /\ pc = "built"
    /\ mutations < MaxMutations
    /\ \E i \in DOMAIN decriptor_stats :
          decriptor_stats' =
              [decriptor_stats EXCEPT ![i].selected = ~decriptor_stats[i].selected]
    /\ mutations' = mutations + 1
    /\ UNCHANGED <<pc, good_value, raw_column, label_column, df, lib, r2_cutoff,
                   descriptor_corr, pMPO, returned, first_returned, kwargs, result>>

\* stats.loc[i, 'w'] = 0.5
SetWeight ==
    /\ pc = "built"
    /\ mutations < MaxMutations
    /\ \E i \in DOMAIN decriptor_stats :
          decriptor_stats' = [decriptor_stats EXCEPT ![i].w = Fin(1, 2)]
    /\ mutations' = mutations + 1
    /\ UNCHANGED <<pc, good_value, raw_column, label_column, df, lib, r2_cutoff,
                   descriptor_corr, pMPO, returned, first_returned, kwargs, result>>

\* stats.loc[i, 'good_mean'] = 7.0
SetGoodMean ==
    /\ pc = "built"
    /\ mutations < MaxMutations
    /\ \E i \in DOMAIN decriptor_stats :
          decriptor_stats' = [decriptor_stats EXCEPT ![i].good_mean = Fin(7, 1)]
    /\ mutations' = mutations + 1
    /\ UNCHANGED <<pc, good_value, raw_column, label_column, df, lib, r2_cutoff,
                   descriptor_corr, pMPO, returned, first_returned, kwargs, result>>

NextCache ==
    BuilderInit(CacheSummaries) \/ GetPMPO \/ SetSelected \/ SetWeight \/ SetGoodMean

SpecCache == InitCache /\ [][NextCache]_vars

(***************************************************************************)
(* SpecSelect: calculate_descriptor_statistics, then                       *)
(* pick_uncorrelated_columns, on a frame of SelectRows rows and three      *)
(* columns: A holds every row, B and C every row, the first half or the    *)
(* second half.                                                            *)
(***************************************************************************)
SelectColumns == <<"A", "B", "C">>

\* Labels True, True, False, False, True, ... or all True.
SelectLabels == {[i \in 1..SelectRows |-> (i - 1) % 4 < 2], AllPresent(SelectRows)}

Halves == {AllPresent(SelectRows),
           [i \in 1..SelectRows |-> 2 * i <= SelectRows],
           [i \in 1..SelectRows |-> 2 * i > SelectRows]}

SelectSummaries ==
    {u \in Summaries : /\ u.good_mean = Zero /\ u.bad_mean = Fin(2, 1)
                       /\ u.good_std = One /\ u.bad_std = One}

InitSelect ==
    /\ pc = "new"
    /\ good_value = Str("default")
    /\ raw_column = <<>>
    /\ label_column \in SelectLabels
    /\ df \in {[cols |-> SelectColumns, cells |-> c] :
                  c \in {x \in [Range(SelectColumns) -> Halves] : x["A"] = AllPresent(SelectRows)}}
    /\ lib = NoLib
    /\ r2_cutoff \in {R2_CUTOFF, Fin(81, 100)}
    /\ decriptor_stats = <<>>
    /\ descriptor_corr = <<>>
    /\ pMPO = NoModel
    /\ returned = NoCall
    /\ first_returned = NoCall
    /\ mutations = 0
    /\ kwargs = <<>>
    /\ result = NoResult

\* column_stats = calculate_descriptor_statistics(df, good_column, min_samples, p_cutoff)
CalculateStatistics ==
    /\ pc = "new"
    /\ \/ /\ StatsRaises(df, label_column, MinSamples)
          /\ pc' = "KeyError"
          /\ UNCHANGED <<lib, decriptor_stats>>
       \/ /\ ~StatsRaises(df, label_column, MinSamples)
          /\ \E summary \in [Range(AnalysedColumns(df, label_column, MinSamples))
                                -> SelectSummaries] :
             \E stats \in calculate_descriptor_statistics(df, label_column, MinSamples,
                                                          P_CUTOFF, summary) :
                /\ lib' = [lib EXCEPT !.summary = summary]
                /\ decriptor_stats' = stats
                /\ pc' = "stats"
    /\ UNCHANGED <<good_value, raw_column, label_column, df, r2_cutoff, descriptor_corr,
                   pMPO, returned, first_returned, mutations, kwargs, result>>

\* desc_corr = pick_uncorrelated_columns(df, column_stats, r2_cutoff)
PickUncorrelated ==
    /\ pc = "stats"
    /\ \E corr \in CorrResults(df, SignificantNames(decriptor_stats)) :
          LET picked == pick_uncorrelated_columns(decriptor_stats, corr, r2_cutoff)
          IN  /\ lib' = [lib EXCEPT !.corr = corr]
              /\ decriptor_stats' = picked.column_stats
              /\ descriptor_corr' = picked.desc_correlation
    /\ pc' = "picked"
    /\ UNCHANGED <<good_value, raw_column, label_column, df, r2_cutoff, pMPO, returned,
                   first_returned, mutations, kwargs, result>>

NextSelect == CalculateStatistics \/ PickUncorrelated

SpecSelect == InitSelect /\ [][NextSelect]_vars

(***************************************************************************)
(* SpecModel: a scoring model, its functions registered one by one, and    *)
(* calls of it on records.                                                 *)
(***************************************************************************)
FnNames == {"A", "B"}

FnParams ==
    {[mean |-> m, std |-> sd, weight |-> w] :
        <<m, sd, w>> \in {<<Zero, One, Fin(1, 2)>>, <<One, One, One>>,
                           <<One, Zero, Fin(1, 2)>>, <<Zero, One, NaN>>}}

Keys == {"A", "B", "X"}

Values == {Zero, One, NaN, NoneVal}

Records ==
    {r \in UNION {[1..n -> [key : Keys, val : Values]] : n \in 0..MaxRecord} :
        \A i, j \in DOMAIN r : i # j => r[i].key # r[j].key}

InitModel ==
    /\ pc = "idle"
    /\ good_value = Str("default")
    /\ raw_column = <<>>
    /\ label_column = <<>>
    /\ df = NoDf
    /\ lib = NoLib
    /\ r2_cutoff = R2_CUTOFF
    /\ decriptor_stats = <<>>
    /\ descriptor_corr = <<>>
    /\ pMPO = [id |-> 1, functions |-> {}]
    /\ returned = NoCall
    /\ first_returned = NoCall
    /\ mutations = 0
    /\ kwargs = <<>>
    /\ result = NoResult

\* model.register(name, fn)
Register ==
    /\ pc = "idle"
    /\ \E name \in FnNames, fn \in FnParams :
          pMPO' = [pMPO EXCEPT !.functions = register(pMPO.functions, name, fn)]
    /\ UNCHANGED <<pc, good_value, raw_column, label_column, df, lib, r2_cutoff,
                   decriptor_stats, descriptor_corr, returned, first_returned,
                   mutations, kwargs, result>>

\* model(**record)
Evaluate ==
    /\ pc = "idle"
    /\ \E r \in Records :
          /\ kwargs' = r
          /\ result' = pMPOModel_call(pMPO.functions, r)
    /\ pc' = "returned"
    /\ UNCHANGED <<good_value, raw_column, label_column, df, lib, r2_cutoff,
                   decriptor_stats, descriptor_corr, pMPO, returned, first_returned,
                   mutations>>

\* The caller takes the result (or the exception) and goes on.
Return ==
    /\ pc = "returned"
    /\ pc' = "idle"
    /\ kwargs' = <<>>
    /\ result' = NoResult
    /\ UNCHANGED <<good_value, raw_column, label_column, df, lib, r2_cutoff,
                   decriptor_stats, descriptor_corr, pMPO, returned, first_returned,
                   mutations>>

NextModel == Register \/ Evaluate \/ Return

SpecModel == InitModel /\ [][NextModel]_vars

(***************************************************************************)
(* Claims.                                                                 *)
(***************************************************************************)
Rows == DOMAIN decriptor_stats

\* The r^2 of two significant descriptors, from what DataFrame.corr returned.
R2(a, b) == FSquare(lib.corr[a][b])

RowR2(i, j) == R2(decriptor_stats[i].name, decriptor_stats[j].name)

\* C1 (SpecSelect): after pick_uncorrelated_columns no two distinct
\* descriptors are both selected with a pairwise r^2 greater than r2_cutoff.
C1_NoCorrelatedPairSelected ==
    pc = "picked" =>
        \A i, j \in Rows :
            (i # j /\ decriptor_stats[i].selected /\ decriptor_stats[j].selected)
                => ~FGt(RowR2(i, j), r2_cutoff)

\* Two descriptors are selected and a third, significant one was rejected for
\* its r^2 with the earlier of them.
C1_Witness ==
    /\ pc = "picked"
    /\ \E i, j, k \in Rows :
          /\ i < j /\ k # i /\ k # j
          /\ decriptor_stats[i].selected /\ decriptor_stats[j].selected
          /\ decriptor_stats[k].significant /\ ~decriptor_stats[k].selected
          /\ FGt(RowR2(i, k), r2_cutoff)

\* C10 as stated (SpecSelect): selected exactly when significant and the r^2
\* against every descriptor accepted earlier is <= r2_cutoff; of two
\* significant descriptors with mutual r^2 above r2_cutoff only the one with
\* the lower p_value is selected; a non-significant descriptor is never
\* selected.
C10_AsStated ==
    pc = "picked" =>
        /\ \A i \in Rows :
              decriptor_stats[i].selected <=>
                  /\ decriptor_stats[i].significant
                  /\ \A j \in Rows :
                        (j < i /\ decriptor_stats[j].selected)
                            => FLe(RowR2(i, j), r2_cutoff)
        /\ \A i, j \in Rows :
              (/\ decriptor_stats[i].significant /\ decriptor_stats[j].significant
               /\ FLt(decriptor_stats[i].p_value, decriptor_stats[j].p_value)
               /\ FGt(RowR2(i, j), r2_cutoff))
                  => (decriptor_stats[i].selected /\ ~decriptor_stats[j].selected)
        /\ \A i \in Rows : ~decriptor_stats[i].significant => ~decriptor_stats[i].selected

\* C10 amended (SpecSelect): the table is in ascending p_value order; a
\* descriptor is selected exactly when it is significant and no descriptor
\* accepted earlier in that order has an r^2 with it greater than r2_cutoff
\* (a nan r^2 does not count as correlated); of two significant descriptors
\* with mutual r^2 above r2_cutoff the later one is not selected when the
\* earlier one is, so at most one of them is; a non-significant descriptor
\* is never selected.
C10_GreedyPass ==
    pc = "picked" =>
        /\ \A i, j \in Rows :
              i < j => ~PBefore(decriptor_stats[j], decriptor_stats[i])
        /\ \A i \in Rows :
              decriptor_stats[i].selected <=>
                  /\ decriptor_stats[i].significant
                  /\ \A j \in Rows :
                        (j < i /\ decriptor_stats[j].selected)
                            => ~FGt(RowR2(i, j), r2_cutoff)
        /\ \A i, j \in Rows :
              (/\ i < j
               /\ decriptor_stats[i].significant /\ decriptor_stats[j].significant
               /\ FGt(RowR2(i, j), r2_cutoff)
               /\ decriptor_stats[i].selected)
                  => ~decriptor_stats[j].selected
        /\ \A i \in Rows : ~decriptor_stats[i].significant => ~decriptor_stats[i].selected

\* Three significant descriptors in order, the second rejected against the
\* first, the third accepted although its r^2 with the second, whose p_value
\* is lower, is above the cutoff.
C10_Witness ==
    /\ pc = "picked"
    /\ Len(decriptor_stats) = 3
    /\ \A i \in Rows : decriptor_stats[i].significant
    /\ FGt(RowR2(1, 2), r2_cutoff)
    /\ FGt(RowR2(2, 3), r2_cutoff)
    /\ FLt(decriptor_stats[2].p_value, decriptor_stats[3].p_value)
    /\ decriptor_stats[1].selected
    /\ ~decriptor_stats[2].selected
    /\ decriptor_stats[3].selected

\* The sum of function(value) over the entries of the record whose name is
\* registered and whose value is a number other than nan.
RECURSIVE SumOver(_)
SumOver(idx) ==
    IF idx = {} THEN Zero
    ELSE LET i == CHOOSE x \in idx : TRUE
         IN  FAdd(SigmoidalFunction_call(FnOf(pMPO.functions, kwargs[i].key), kwargs[i].val),
                  SumOver(idx \ {i}))

Counted ==
    {i \in DOMAIN kwargs :
        /\ Registered(pMPO.functions, kwargs[i].key)
        /\ IsNumber(kwargs[i].val)
        /\ ~IsNaN(kwargs[i].val)}

\* C2 (SpecModel): a call of the model on a record whose registered entries
\* hold floats returns the sum of function(value) over the entries that are
\* registered and not nan (unregistered names add nothing, nan values add
\* 0.0); whenever a call returns at all it returns that sum; and a model with
\* no function returns 0.0 for every record.
C2_EvaluateIsFilteredSum ==
    pc = "returned" =>
        /\ (\A i \in DOMAIN kwargs :
               Registered(pMPO.functions, kwargs[i].key) => IsNumber(kwargs[i].val))
              => result = Ok(SumOver(Counted))
        /\ result.status = "ok" => result.value = SumOver(Counted)
        /\ pMPO.functions = {} => result = Ok(Zero)

\* A call whose record holds an unregistered name, a registered name with a
\* nan value and a registered name with a value that contributes.
C2_Witness ==
    /\ pc = "returned"
    /\ result.status = "ok"
    /\ result.value # Zero
    /\ \E i, j, k \in DOMAIN kwargs :
          /\ ~Registered(pMPO.functions, kwargs[i].key)
          /\ Registered(pMPO.functions, kwargs[j].key) /\ IsNaN(kwargs[j].val)
          /\ Registered(pMPO.functions, kwargs[k].key) /\ IsFin(kwargs[k].val)

\* C3 (SpecModel): a call of the model never ends in an error, whatever the
\* record holds.
C3_EvaluateNeverFails == pc = "returned" => result.status = "ok"

\* C4 (SpecCache): every get_pMPO after the first returns the model the first
\* call returned, object and functions, whatever was done to the statistics
\* table in between.
C4_GetPMPOCached ==
    first_returned # NoCall =>
        /\ returned.model = first_returned.model
        /\ pMPO = first_returned.model

\* get_pMPO was called before any mutation and again after one, and the
\* mutated table would now give other functions.
C4_Witness ==
    /\ first_returned # NoCall
    /\ first_returned.at = 0
    /\ returned.at > 0
    /\ NewModel(NoModel, decriptor_stats).functions # returned.model.functions

Selected == {i \in Rows : decriptor_stats[i].selected}

RECURSIVE SumW(_, _)
SumW(idx, skipna) ==
    IF idx = {} THEN Zero
    ELSE LET i == CHOOSE x \in idx : TRUE
             w == decriptor_stats[i].w
         IN  IF skipna /\ IsNaN(w) THEN SumW(idx \ {i}, skipna)
             ELSE FAdd(w, SumW(idx \ {i}, skipna))

\* C5 (Spec): after the weights are computed, whenever a descriptor is
\* selected the w of the selected descriptors sum to 1 (summed as floats, or
\* as pandas sums, skipping nan).
C5_WeightsSumToOne ==
    (pc = "built" /\ Selected # {}) =>
        (SumW(Selected, FALSE) = One \/ SumW(Selected, TRUE) = One)

\* C6 (Spec): a build in which no descriptor is selected does not complete as
\* a normal build: it ends in an error (the model has no other way to tag it).
C6_EmptySelectionSurfaced == Selected = {} => pc # "built"

\* What the policy asks for on a raw value.
PolicySays(gv, x) ==
    IF gv = Str("default") THEN InTruths(x)
    ELSE IF gv.kind = "callable" THEN Holds(gv.s, x)
    ELSE PyEq(x, gv)

\* C7 (SpecLabel): every row's label is what the policy says of its raw
\* value: membership of the truthy set, equality with the good value, or the
\* custom predicate.
C7_LabelFollowsPolicy ==
    pc = "labelled" =>
        /\ Len(label_column) = Len(raw_column)
        /\ \A i \in DOMAIN raw_column :
              label_column[i] <=> PolicySays(good_value, raw_column[i])

\* C8 (Spec): the statistics engine never ends in an error, and the table
\* holds exactly the columns with at least min_samples good and min_samples
\* bad observations.
C8_SkipIsNotFatal ==
    /\ pc # "KeyError"
    /\ pc = "built" =>
          {decriptor_stats[i].name : i \in Rows}
              = {c \in Range(df.cols) : EnoughSamples(df, label_column, c, MinSamples)}

\* C9 (Spec): every row of the table with good_mean < bad_mean has
\* good_mean < cutoff < bad_mean.
C9_CutoffStrictlyBetween ==
    pc = "built" =>
        \A i \in Rows :
            FLt(decriptor_stats[i].good_mean, decriptor_stats[i].bad_mean)
                => /\ FLt(decriptor_stats[i].good_mean, decriptor_stats[i].cutoff)
                   /\ FLt(decriptor_stats[i].cutoff, decriptor_stats[i].bad_mean)

====
